---- MODULE Spec2Model ----
(***************************************************************************)
(* A model of the phone_book crate: the PhoneBook store of src/lib.rs      *)
(* (a HashSet<Contact> whose equality and hash look at phone_number only), *)
(* its JSON persistence, and the command line of src/main.rs.              *)
(*                                                                         *)
(* A String is modelled as the sequence of its Unicode scalar values, so   *)
(* that str::len, which counts UTF-8 bytes, and the number of characters   *)
(* are two different things, as they are in the program.                   *)
(***************************************************************************)
EXTENDS Integers, Sequences, FiniteSets, TLC

VARIABLES
  contacts,   \* PhoneBook.contacts of the in-memory phone book
  file,       \* the persisted resource: Absent, or the JSON document
  op,         \* the last call: [name |-> ..., arg |-> ...]
  result,     \* what the last call returned: "Ok" or the error
  found       \* the contacts the last query returned

vars == <<contacts, file, op, result, found>>

----------------------------------------------------------------------------
(* Bounds and program constants *)

\* The largest store explored.
MaxContacts == 2

\* is_valid_phone_number: number.len() == 10
PhoneLen == 10

----------------------------------------------------------------------------
(* Strings *)

\* A string of n copies of the scalar value c.
Repeat(c, n) == [i \in 1..n |-> c]

\* char::len_utf8: the number of bytes of a scalar value in UTF-8.
len_utf8(c) == IF c < 128 THEN 1 ELSE IF c < 2048 THEN 2 ELSE IF c < 65536 THEN 3 ELSE 4

RECURSIVE str_len(_)
\* str::len: the length of a string in bytes.
str_len(s) == IF s = <<>> THEN 0 ELSE len_utf8(Head(s)) + str_len(Tail(s))

\* Option<T>
None == [tag |-> "None"]
Some(x) == [tag |-> "Some", val |-> x]

\* Option<String>::unwrap_or_default
unwrap_or_default(o) == IF o.tag = "Some" THEN o.val ELSE ""

----------------------------------------------------------------------------
(* Records *)

Address(street, city, state, postcode, country) ==
  [street_address |-> street, city |-> city, state |-> state,
   postcode |-> postcode, country |-> country]

Contact(first, last, phone, address) ==
  [first_name |-> first, last_name |-> last, phone_number |-> phone,
   address |-> address]

\* impl PartialEq for Contact: phone_number alone decides.
contact_eq(a, b) == a.phone_number = b.phone_number

\* PhoneBook::new
PhoneBook_new == {}

----------------------------------------------------------------------------
(* The inputs explored *)

\* "5551234567"
P1 == <<53, 53, 53, 49, 50, 51, 52, 53, 54, 55>>
\* "9999999999"
P2 == Repeat(57, 10)
\* "123": 3 characters, 3 bytes
PShort == <<49, 50, 51>>
\* five times U+00E9: 5 characters, 10 bytes
PWide5 == Repeat(233, 5)
\* ten times U+00E9: 10 characters, 20 bytes
PWide10 == Repeat(233, 10)

PhoneNumbers == {P1, P2, PShort, PWide5, PWide10}

AddrParis == Address("1 Rue A", "Paris", "IDF", "75001", "FR")
AddrLower == Address("2 Rue B", "paris", "TX", "75460", "US")

\* first_name, last_name, address of the contacts handed to the store
Profiles ==
  { <<"Ann", "Lee", None>>,
    <<"Bob", "Lee", Some(AddrParis)>>,
    <<"Eve", "", Some(AddrLower)>> }

InputContacts ==
  { Contact(pr[1], pr[2], p, pr[3]) : pr \in Profiles, p \in PhoneNumbers }

FirstQueries == {None, Some("Ann"), Some("Bob")}
LastQueries == {None, Some("Lee")}
CityQueries == {"Paris", "paris", ""}

\* The contacts and numbers the persistence and command-line runs draw from.
SmallProfiles == { <<"Ann", "Lee", None>>, <<"Bob", "", Some(AddrParis)>> }
PersistPhones == {P1, P2, PShort, PWide5}
PersistContacts ==
  { Contact(pr[1], pr[2], p, pr[3]) : pr \in SmallProfiles, p \in PersistPhones }
CliPhones == {P1, P2, PShort, PWide10}
CliContacts ==
  { Contact(pr[1], pr[2], p, pr[3]) : pr \in SmallProfiles, p \in CliPhones }
UpdateFirst == {None, Some("Bob")}
UpdateLast == {None, Some("Lee")}
UpdateAddress == {None, Some(AddrParis)}

Absent == [type |-> "absent"]

----------------------------------------------------------------------------
(* std::collections::HashSet<Contact> under Contact's Eq *)

HashSet_contains(set, c) == \E m \in set : contact_eq(m, c)

\* HashSet::insert: adds the value unless an equal one is there; the flag
\* says whether it was added.
HashSet_insert(set, c) ==
  IF HashSet_contains(set, c)
    THEN [set |-> set, added |-> FALSE]
    ELSE [set |-> set \cup {c}, added |-> TRUE]

\* HashSet::replace: puts the value in, in place of the equal one if there
\* is one; old is the value it took out.
HashSet_replace(set, c) ==
  IF HashSet_contains(set, c)
    THEN [set |-> {m \in set : ~contact_eq(m, c)} \cup {c},
          old |-> Some(CHOOSE m \in set : contact_eq(m, c))]
    ELSE [set |-> set \cup {c}, old |-> None]

\* HashSet::remove: takes the equal value out; the flag says whether one
\* was there.
HashSet_remove(set, c) ==
  [set |-> {m \in set : ~contact_eq(m, c)},
   removed |-> HashSet_contains(set, c)]

----------------------------------------------------------------------------
(* PhoneBook *)

is_valid_phone_number(number) ==
  IF str_len(number) = PhoneLen THEN "Ok" ELSE "InvalidPhoneNumber"

\* insert_contact had it called HashSet::replace: a duplicate is reported,
\* and the record is overwritten all the same.
insert_contact_overwriting(set, contact) ==
  IF is_valid_phone_number(contact.phone_number) # "Ok"
    THEN [contacts |-> set, result |-> "InvalidPhoneNumber"]
    ELSE LET r == HashSet_replace(set, contact)
         IN  IF r.old.tag = "Some"
               THEN [contacts |-> r.set, result |-> "DuplicateContact"]
               ELSE [contacts |-> r.set, result |-> "Ok"]

\* Each operation yields the store it leaves and what it returns.
insert_contact(set, contact) ==
  IF is_valid_phone_number(contact.phone_number) # "Ok"
    THEN [contacts |-> set, result |-> "InvalidPhoneNumber"]
    ELSE LET r == HashSet_insert(set, contact)
         IN  IF r.added # TRUE
               THEN [contacts |-> r.set, result |-> "DuplicateContact"]
               ELSE [contacts |-> r.set, result |-> "Ok"]

\* replace_contact had it called HashSet::insert: the record found is kept.
replace_contact_keeping(set, contact) ==
  IF is_valid_phone_number(contact.phone_number) # "Ok"
    THEN [contacts |-> set, result |-> "InvalidPhoneNumber"]
    ELSE LET r == HashSet_insert(set, contact)
         IN  IF r.added
               THEN [contacts |-> r.set, result |-> "NotFound"]
               ELSE [contacts |-> r.set, result |-> "Ok"]

replace_contact(set, contact) ==
  IF is_valid_phone_number(contact.phone_number) # "Ok"
    THEN [contacts |-> set, result |-> "InvalidPhoneNumber"]
    ELSE LET r == HashSet_replace(set, contact)
         IN  IF r.old.tag = "Some"
               THEN [contacts |-> r.set, result |-> "Ok"]
               ELSE [contacts |-> r.set, result |-> "NotFound"]

delete_contact(set, number) ==
  IF is_valid_phone_number(number) # "Ok"
    THEN [contacts |-> set, result |-> "InvalidPhoneNumber"]
    ELSE LET r == HashSet_remove(set, Contact("", "", number, None))
         IN  IF r.removed
               THEN [contacts |-> r.set, result |-> "Ok"]
               ELSE [contacts |-> r.set, result |-> "NotFound"]

find_phone_number(set, number) ==
  IF is_valid_phone_number(number) # "Ok"
    THEN [found |-> {}, result |-> "InvalidPhoneNumber"]
    ELSE LET hit == {c \in set : c.phone_number = number}
         IN  IF hit = {}
               THEN [found |-> {}, result |-> "NotFound"]
               ELSE [found |-> {CHOOSE c \in hit : TRUE}, result |-> "Ok"]

\* find_name with && in place of ||.
find_name_both(set, first, last) ==
  {c \in set : /\ c.first_name = unwrap_or_default(first)
               /\ c.last_name = unwrap_or_default(last)}

find_name(set, first, last) ==
  {c \in set : \/ c.first_name = unwrap_or_default(first)
               \/ c.last_name = unwrap_or_default(last)}

\* find_city with a missing address taken as an empty city.
find_city_defaulting(set, city) ==
  {c \in set : IF c.address.tag = "Some" THEN c.address.val.city = city ELSE "" = city}

find_city(set, city) ==
  {c \in set : IF c.address.tag = "Some" THEN c.address.val.city = city ELSE FALSE}

----------------------------------------------------------------------------
(* Persistence: serde_json over the derived Serialize / Deserialize *)

JNull == [type |-> "null"]
JString(s) == [type |-> "string", val |-> s]

\* Serialize for Address: an object of five strings.
Address_to_json(a) ==
  [type |-> "object",
   street_address |-> JString(a.street_address), city |-> JString(a.city),
   state |-> JString(a.state), postcode |-> JString(a.postcode),
   country |-> JString(a.country)]

\* Serialize for Option<Address>: null, or the address.
Option_to_json(o) == IF o.tag = "Some" THEN Address_to_json(o.val) ELSE JNull

\* Serialize for Contact with the address field skipped.
Contact_to_json_skipping(c) ==
  [type |-> "object",
   first_name |-> JString(c.first_name), last_name |-> JString(c.last_name),
   phone_number |-> JString(c.phone_number),
   address |-> JNull]

\* Serialize for Contact: an object of its four fields.
Contact_to_json(c) ==
  [type |-> "object",
   first_name |-> JString(c.first_name), last_name |-> JString(c.last_name),
   phone_number |-> JString(c.phone_number),
   address |-> Option_to_json(c.address)]

\* The orders in which a HashSet may hand out its elements.
Orders(set) ==
  {s \in [1..Cardinality(set) -> set] : \A i, j \in DOMAIN s : i # j => s[i] # s[j]}

\* Serialize for PhoneBook, the set's elements taken in the order seq:
\* {"contacts": [ ... ]}.
PhoneBook_to_json(seq) ==
  [type |-> "object",
   contacts |-> [type |-> "array",
                 items |-> [i \in DOMAIN seq |-> Contact_to_json(seq[i])]]]

\* Deserialize for Address.
Address_from_json(j) ==
  Address(j.street_address.val, j.city.val, j.state.val, j.postcode.val,
          j.country.val)

\* Deserialize for Option<Address>: null is None.
Option_from_json(j) ==
  IF j.type = "null" THEN None ELSE Some(Address_from_json(j))

\* Deserialize for Contact.
Contact_from_json(j) ==
  Contact(j.first_name.val, j.last_name.val, j.phone_number.val,
          Option_from_json(j.address))

RECURSIVE HashSet_from_items(_, _)
\* Deserialize for HashSet: each element of the array is inserted in turn.
HashSet_from_items(items, set) ==
  IF items = <<>>
    THEN set
    ELSE HashSet_from_items(Tail(items),
                            HashSet_insert(set, Contact_from_json(Head(items))).set)

\* Deserialize for PhoneBook.
PhoneBook_from_json(doc) == HashSet_from_items(doc.contacts.items, {})

\* PhoneBook::new_from_file: File::open fails on a missing file.
new_from_file(f) ==
  IF f = Absent
    THEN [contacts |-> {}, result |-> "PersistenceError"]
    ELSE [contacts |-> PhoneBook_from_json(f), result |-> "Ok"]

\* PhoneBook::save_to_file: the documents it may write, one per iteration
\* order of the set. File::create truncates whatever was there.
save_to_file(set) == {PhoneBook_to_json(seq) : seq \in Orders(set)}

----------------------------------------------------------------------------
Init ==
  /\ contacts = PhoneBook_new
  /\ file = Absent
  /\ op = [name |-> "new", arg |-> <<>>]
  /\ result = "Ok"
  /\ found = {}

Insert(c) ==
  LET r == insert_contact(contacts, c)
  IN  /\ Cardinality(r.contacts) <= MaxContacts
      /\ contacts' = r.contacts
      /\ result' = r.result
      /\ op' = [name |-> "insert_contact", arg |-> c]
      /\ found' = {}
      /\ UNCHANGED file

Replace(c) ==
  LET r == replace_contact(contacts, c)
  IN  /\ Cardinality(r.contacts) <= MaxContacts
      /\ contacts' = r.contacts
      /\ result' = r.result
      /\ op' = [name |-> "replace_contact", arg |-> c]
      /\ found' = {}
      /\ UNCHANGED file

Delete(number) ==
  LET r == delete_contact(contacts, number)
  IN  /\ contacts' = r.contacts
      /\ result' = r.result
      /\ op' = [name |-> "delete_contact", arg |-> number]
      /\ found' = {}
      /\ UNCHANGED file

FindPhone(number) ==
  LET r == find_phone_number(contacts, number)
  IN  /\ found' = r.found
      /\ result' = r.result
      /\ op' = [name |-> "find_phone_number", arg |-> number]
      /\ UNCHANGED <<contacts, file>>

FindName(first, last) ==
  /\ found' = find_name(contacts, first, last)
  /\ result' = "Ok"
  /\ op' = [name |-> "find_name", arg |-> [first |-> first, last |-> last]]
  /\ UNCHANGED <<contacts, file>>

FindCity(city) ==
  /\ found' = find_city(contacts, city)
  /\ result' = "Ok"
  /\ op' = [name |-> "find_city", arg |-> city]
  /\ UNCHANGED <<contacts, file>>

Save ==
  /\ file' \in save_to_file(contacts)
  /\ result' = "Ok"
  /\ op' = [name |-> "save_to_file", arg |-> <<>>]
  /\ found' = {}
  /\ UNCHANGED contacts

Load ==
  LET r == new_from_file(file)
  IN  /\ contacts' = IF r.result = "Ok" THEN r.contacts ELSE contacts
      /\ result' = r.result
      /\ op' = [name |-> "new_from_file", arg |-> <<>>]
      /\ found' = {}
      /\ UNCHANGED file

Next ==
  \/ \E c \in InputContacts : Insert(c)
  \/ \E c \in InputContacts : Replace(c)
  \/ \E p \in PhoneNumbers : Delete(p)
  \/ \E p \in PhoneNumbers : FindPhone(p)
  \/ \E f \in FirstQueries, l \in LastQueries : FindName(f, l)
  \/ \E city \in CityQueries : FindCity(city)

Spec == Init /\ [][Next]_vars

NextPersist ==
  \/ \E c \in PersistContacts : Insert(c)
  \/ \E c \in PersistContacts : Replace(c)
  \/ \E p \in PersistPhones : Delete(p)
  \/ Save
  \/ Load

SpecPersist == Init /\ [][NextPersist]_vars

----------------------------------------------------------------------------
(* The command line of main.rs. A command is one process: it loads the     *)
(* file, calls the phone book once and saves; unwrap() on an Err panics    *)
(* and the process ends there. calls lists the PhoneBook calls it made.    *)

Panic(calls) == [panic |-> TRUE, contacts |-> {}, calls |-> calls]
Done(set, calls) == [panic |-> FALSE, contacts |-> set, calls |-> calls]

\* Commands::Init
cmd_init == Done(PhoneBook_new, <<"new", "save_to_file">>)

\* Commands::Add
cmd_add(f, c) ==
  LET book == new_from_file(f)
      r == insert_contact(book.contacts, c)
  IN  IF book.result # "Ok" THEN Panic(<<"new_from_file">>)
      ELSE IF r.result # "Ok" THEN Panic(<<"new_from_file", "insert_contact">>)
      ELSE Done(r.contacts, <<"new_from_file", "insert_contact", "save_to_file">>)

\* Commands::Update building the record from the arguments alone: an
\* omitted address is lost.
cmd_update_resetting(f, phone_number, first, last, address) ==
  LET book == new_from_file(f)
      hit == find_phone_number(book.contacts, phone_number)
      existing == CHOOSE c \in hit.found : TRUE
      named == IF first.tag = "Some"
                 THEN [existing EXCEPT !.first_name = first.val] ELSE existing
      renamed == IF last.tag = "Some"
                   THEN [named EXCEPT !.last_name = last.val] ELSE named
      moved == [renamed EXCEPT !.address = address]
      r == replace_contact(book.contacts, moved)
  IN  IF book.result # "Ok" THEN Panic(<<"new_from_file">>)
      ELSE IF hit.result # "Ok"
        THEN Panic(<<"new_from_file", "find_phone_number">>)
      ELSE IF r.result # "Ok"
        THEN Panic(<<"new_from_file", "find_phone_number", "replace_contact">>)
      ELSE Done(r.contacts, <<"new_from_file", "find_phone_number",
                              "replace_contact", "save_to_file">>)

\* Commands::Update
cmd_update(f, phone_number, first, last, address) ==
  LET book == new_from_file(f)
      hit == find_phone_number(book.contacts, phone_number)
      existing == CHOOSE c \in hit.found : TRUE
      named == IF first.tag = "Some"
                 THEN [existing EXCEPT !.first_name = first.val] ELSE existing
      renamed == IF last.tag = "Some"
                   THEN [named EXCEPT !.last_name = last.val] ELSE named
      moved == IF address.tag = "Some"
                 THEN [renamed EXCEPT !.address = Some(address.val)] ELSE renamed
      r == replace_contact(book.contacts, moved)
  IN  IF book.result # "Ok" THEN Panic(<<"new_from_file">>)
      ELSE IF hit.result # "Ok"
        THEN Panic(<<"new_from_file", "find_phone_number">>)
      ELSE IF r.result # "Ok"
        THEN Panic(<<"new_from_file", "find_phone_number", "replace_contact">>)
      ELSE Done(r.contacts, <<"new_from_file", "find_phone_number",
                              "replace_contact", "save_to_file">>)

\* Commands::Delete
cmd_delete(f, phone_number) ==
  LET book == new_from_file(f)
      r == delete_contact(book.contacts, phone_number)
  IN  IF book.result # "Ok" THEN Panic(<<"new_from_file">>)
      ELSE IF r.result # "Ok" THEN Panic(<<"new_from_file", "delete_contact">>)
      ELSE Done(r.contacts, <<"new_from_file", "delete_contact", "save_to_file">>)

\* A mutating command: on a panic nothing is written.
Command(name, arg, out, message) ==
  /\ op' = [name |-> name, arg |-> arg, calls |-> out.calls]
  /\ found' = {}
  /\ UNCHANGED contacts
  /\ IF out.panic
       THEN result' = "panic" /\ file' = file
       ELSE result' = message /\ file' \in save_to_file(out.contacts)

CmdInit == Command("init", <<>>, cmd_init, "File created")

CmdAdd(c) ==
  LET out == cmd_add(file, c)
  IN  /\ Cardinality(out.contacts) <= MaxContacts
      /\ Command("add", c, out, "Contact saved")

CmdUpdate(phone_number, first, last, address) ==
  Command("update",
          [phone_number |-> phone_number, first |-> first, last |-> last,
           address |-> address],
          cmd_update(file, phone_number, first, last, address),
          "Contact updated")

CmdDelete(phone_number) ==
  Command("delete", phone_number, cmd_delete(file, phone_number),
          "Contact deleted")

\* Commands::Search, SearchCommands::Phone
CmdSearchPhone(phone_number) ==
  LET book == new_from_file(file)
      hit == find_phone_number(book.contacts, phone_number)
  IN  /\ op' = [name |-> "search phone", arg |-> phone_number,
                calls |-> IF book.result = "Ok"
                            THEN <<"new_from_file", "find_phone_number">>
                            ELSE <<"new_from_file">>]
      /\ result' = IF book.result # "Ok" THEN "panic"
                   ELSE IF hit.result = "Ok" THEN "printed"
                   ELSE "didn't find anything"
      /\ found' = IF book.result = "Ok" THEN hit.found ELSE {}
      /\ UNCHANGED <<contacts, file>>

\* Commands::Search, SearchCommands::Name
CmdSearchName(first, last) ==
  LET book == new_from_file(file)
      hits == find_name(book.contacts, first, last)
      unasked == first = None /\ last = None
  IN  /\ op' = [name |-> "search name", arg |-> [first |-> first, last |-> last],
                calls |-> IF unasked THEN <<>>
                          ELSE IF book.result = "Ok"
                            THEN <<"new_from_file", "find_name">>
                            ELSE <<"new_from_file">>]
      /\ result' = IF unasked THEN "must provide at least one search value"
                   ELSE IF book.result # "Ok" THEN "panic"
                   ELSE IF Cardinality(hits) = 0 THEN "didn't find anything"
                   ELSE "printed"
      /\ found' = IF ~unasked /\ book.result = "Ok" THEN hits ELSE {}
      /\ UNCHANGED <<contacts, file>>

\* Commands::Search, SearchCommands::City
CmdSearchCity(city) ==
  LET book == new_from_file(file)
      hits == find_city(book.contacts, city)
  IN  /\ op' = [name |-> "search city", arg |-> city,
                calls |-> IF book.result = "Ok"
                            THEN <<"new_from_file", "find_city">>
                            ELSE <<"new_from_file">>]
      /\ result' = IF book.result # "Ok" THEN "panic"
                   ELSE IF Cardinality(hits) = 0 THEN "didn't find anything"
                   ELSE "printed"
      /\ found' = IF book.result = "Ok" THEN hits ELSE {}
      /\ UNCHANGED <<contacts, file>>

NextCli ==
  \/ CmdInit
  \/ \E c \in CliContacts : CmdAdd(c)
  \/ \E p \in CliPhones, f \in UpdateFirst, l \in UpdateLast, a \in UpdateAddress :
       CmdUpdate(p, f, l, a)
  \/ \E p \in CliPhones : CmdDelete(p)
  \/ \E p \in CliPhones : CmdSearchPhone(p)
  \/ \E f \in FirstQueries, l \in LastQueries : CmdSearchName(f, l)
  \/ \E city \in CityQueries : CmdSearchCity(city)

SpecCli == Init /\ [][NextCli]_vars

----------------------------------------------------------------------------
(* The claims *)

\* The number of characters of a string.
chars_count(s) == Len(s)

\* The members of a store that carry the number p.
WithNumber(set, p) == {m \in set : m.phone_number = p}

NoTwoShareANumber(set) ==
  \A a, b \in set : a.phone_number = b.phone_number => a = b

PhoneCalls ==
  {"insert_contact", "replace_contact", "delete_contact", "find_phone_number"}

\* The phone number a call was given.
NumberOf(o) ==
  IF o.name \in {"insert_contact", "replace_contact"}
    THEN o.arg.phone_number ELSE o.arg

\* C1: the store never holds two contacts with the same phone_number, and an
\* insert_contact of a phone_number that is already there fails with
\* DuplicateContact and leaves the store, the existing record included, as
\* it was.
C1_Uniqueness ==
  [][ /\ NoTwoShareANumber(contacts')
      /\ (op'.name = "insert_contact"
          /\ WithNumber(contacts, op'.arg.phone_number) # {})
         => (result' = "DuplicateContact" /\ contacts' = contacts) ]_vars

\* C1 happens: a second insert of a number was refused while the store holds
\* a different record under that number, beside another contact.
C1_Witness ==
  /\ op.name = "insert_contact"
  /\ result = "DuplicateContact"
  /\ Cardinality(contacts) = 2
  /\ \E m \in contacts :
       /\ m.phone_number = op.arg.phone_number
       /\ chars_count(m.phone_number) = PhoneLen
       /\ m.first_name # op.arg.first_name
       /\ m.address # op.arg.address

\* C2: replace_contact of a phone_number that is ten long (ten characters,
\* which here are ten bytes too) and that no member has fails with NotFound
\* and leaves the store unchanged, so that the number is still not found.
C2_ReplaceMissingLeavesStore ==
  [][ (op'.name = "replace_contact"
       /\ chars_count(op'.arg.phone_number) = PhoneLen
       /\ str_len(op'.arg.phone_number) = PhoneLen
       /\ WithNumber(contacts, op'.arg.phone_number) = {})
      => /\ result' = "NotFound"
         /\ contacts' = contacts
         /\ find_phone_number(contacts', op'.arg.phone_number).result
              = "NotFound" ]_vars

\* C3: insert_contact, replace_contact, delete_contact and find_phone_number
\* fail with InvalidPhoneNumber for every phone_number that is not 10
\* characters long, and leave the store as it was.
C3_LengthValidated ==
  [][ (op'.name \in PhoneCalls /\ chars_count(NumberOf(op')) # PhoneLen)
      => (result' = "InvalidPhoneNumber" /\ contacts' = contacts) ]_vars

\* C4: replace_contact of a phone_number that a member has succeeds, the
\* number then finds exactly the record supplied, the store is as large as
\* before and every other member is as before.
C4_ReplaceWholeRecord ==
  [][ (op'.name = "replace_contact"
       /\ WithNumber(contacts, op'.arg.phone_number) # {})
      => /\ result' = "Ok"
         /\ find_phone_number(contacts', op'.arg.phone_number)
              = [found |-> {op'.arg}, result |-> "Ok"]
         /\ Cardinality(contacts') = Cardinality(contacts)
         /\ contacts' \ WithNumber(contacts', op'.arg.phone_number)
              = contacts \ WithNumber(contacts, op'.arg.phone_number) ]_vars

\* C4 happens: a replace succeeded with a record that has no address, in a
\* store of two.
C4_Witness ==
  /\ op.name = "replace_contact"
  /\ result = "Ok"
  /\ op.arg.address = None
  /\ op.arg \in contacts
  /\ Cardinality(contacts) = 2

\* C5: for a phone_number p of 10 characters, delete_contact(p) succeeds
\* exactly when a member has p; it then removes that member and no other and
\* p is no longer found; when no member has p, delete_contact(p) and
\* find_phone_number(p) fail with NotFound and the store is as it was.
C5_DeleteExactlyWhenPresent ==
  [][ /\ (op'.name = "delete_contact" /\ chars_count(op'.arg) = PhoneLen)
         => /\ (result' = "Ok") <=> (WithNumber(contacts, op'.arg) # {})
            /\ contacts' = contacts \ WithNumber(contacts, op'.arg)
            /\ find_phone_number(contacts', op'.arg).result = "NotFound"
            /\ (WithNumber(contacts, op'.arg) = {}) => (result' = "NotFound")
      /\ (op'.name = "find_phone_number" /\ chars_count(op'.arg) = PhoneLen
          /\ WithNumber(contacts, op'.arg) = {})
         => (result' = "NotFound" /\ contacts' = contacts) ]_vars

\* C6: find_name returns exactly the members whose first_name is the first
\* name asked for or whose last_name is the last name asked for, a name not
\* asked for counting as the empty string; asked for Ann alone, a store of
\* Ann Lee and Bob Lee yields Ann Lee alone, and asked for Lee alone, both.
\* The store is left as it was.
C6_FindNameEither ==
  [][ (op'.name = "find_name")
      => LET first == IF op'.arg.first = None THEN "" ELSE op'.arg.first.val
             last == IF op'.arg.last = None THEN "" ELSE op'.arg.last.val
             AnnLeeBobLee ==
               /\ Cardinality(contacts) = 2
               /\ \E a, b \in contacts :
                    /\ a.first_name = "Ann" /\ a.last_name = "Lee"
                    /\ b.first_name = "Bob" /\ b.last_name = "Lee"
         IN  /\ found' = {c \in contacts :
                            c.first_name = first \/ c.last_name = last}
             /\ contacts' = contacts
             /\ (AnnLeeBobLee /\ op'.arg = [first |-> Some("Ann"), last |-> None])
                => found' = {c \in contacts : c.first_name = "Ann"}
             /\ (AnnLeeBobLee /\ op'.arg = [first |-> None, last |-> Some("Lee")])
                => found' = contacts ]_vars

\* C6 happens: asked for Ann alone, a store of Ann Lee and Bob Lee gave
\* Ann Lee and not Bob Lee.
C6_Witness ==
  /\ op.name = "find_name"
  /\ op.arg = [first |-> Some("Ann"), last |-> None]
  /\ Cardinality(contacts) = 2
  /\ Cardinality(found) = 1
  /\ \E a \in found : a.first_name = "Ann" /\ a.last_name = "Lee"
  /\ \E b \in contacts \ found : b.first_name = "Bob" /\ b.last_name = "Lee"

\* C7: find_city returns exactly the members that have an address whose
\* city is, character for character, the city asked for; a member without
\* an address is in no result, and a result may be empty without an error.
C7_FindCityExact ==
  [][ (op'.name = "find_city")
      => /\ found' = {c \in contacts :
                        c.address # None /\ c.address.val.city = op'.arg}
         /\ \A c \in found' : c.address # None
         /\ result' = "Ok"
         /\ contacts' = contacts ]_vars

\* C7 happens: asked for the empty city, a store holding a contact without
\* an address and one in "paris" gave nothing; no error.
C7_Witness ==
  /\ op.name = "find_city"
  /\ op.arg = ""
  /\ found = {}
  /\ result = "Ok"
  /\ \E c \in contacts : c.address = None
  /\ \E c \in contacts : c.address # None /\ c.address.val.city = "paris"

\* C8: whatever the store holds, every document save_to_file may write is
\* read back by new_from_file as the same set of contacts, each with the
\* same names and the same address or absence of one.
C8_RoundTrip ==
  \A doc \in save_to_file(contacts) :
    new_from_file(doc) = [contacts |-> contacts, result |-> "Ok"]

\* C8 happens: a store of two, one contact with an address and one without,
\* was read back from the file it had been saved to.
C8_Witness ==
  /\ op.name = "new_from_file"
  /\ result = "Ok"
  /\ file \in save_to_file(contacts)
  /\ Cardinality(contacts) = 2
  /\ \E c \in contacts : c.address = None
  /\ \E c \in contacts : c.address # None

\* The store a file holds.
Stored(f) == new_from_file(f).contacts

\* C9: update of a phone number the file holds rewrites the fields given and
\* no other, keeps the number and every other contact, and saves; update of
\* a number the file does not hold ends before any replace or save: the file
\* is as it was.
C9_UpdateFrame ==
  [][ (op'.name = "update" /\ file # Absent)
      => LET a == op'.arg
             olds == WithNumber(Stored(file), a.phone_number)
         IN  IF olds # {}
               THEN \E old \in olds :
                      /\ result' = "Contact updated"
                      /\ Stored(file')
                           = (Stored(file) \ {old}) \cup
                             {Contact(IF a.first = None THEN old.first_name
                                                        ELSE a.first.val,
                                      IF a.last = None THEN old.last_name
                                                       ELSE a.last.val,
                                      old.phone_number,
                                      IF a.address = None THEN old.address
                                                          ELSE a.address)}
               ELSE /\ result' = "panic"
                    /\ file' = file
                    /\ \A i \in DOMAIN op'.calls :
                         op'.calls[i] \notin {"replace_contact", "save_to_file"} ]_vars

\* C9 happens: an update that gave a first name alone was saved; the contact
\* kept the address and last name it had, beside another contact.
C9_Witness ==
  /\ op.name = "update"
  /\ result = "Contact updated"
  /\ op.arg.first = Some("Bob") /\ op.arg.last = None /\ op.arg.address = None
  /\ Cardinality(Stored(file)) = 2
  /\ \E c \in Stored(file) :
       /\ c.phone_number = op.arg.phone_number
       /\ c.first_name = "Bob" /\ c.last_name = "Lee" /\ c.address # None

\* C10: whatever insert_contact, replace_contact, delete_contact,
\* save_to_file and new_from_file have done, every member's phone_number is
\* exactly 10 characters long.
C10_MembersTenLong ==
  \A c \in contacts : chars_count(c.phone_number) = PhoneLen

====
